---- MODULE Spec2Model ----
(***************************************************************************)
(* Voting and poll-lifecycle engine of game-night-web.                     *)
(*                                                                         *)
(* The repository holds two applications over a SQLite store with the      *)
(* tables users, polls, options and votes:                                 *)
(*   "api"       the JSON API (src/backend): explicit is_active flag,      *)
(*               optional expiry, single-choice voting (db::vote);        *)
(*   "template"  the server-rendered application (src/game-night-web):     *)
(*               mandatory expiry, toggle voting (vote_on_poll).           *)
(* One of the two is deployed; `variant` records which.                    *)
(*                                                                         *)
(* Every request runs on its own task.  A task executes one SQL statement  *)
(* (or one transaction) per step; statements issued on the pool outside a  *)
(* transaction interleave freely with the statements of other tasks.       *)
(* Utc::now() is read in the step that fetches the row it is compared to.  *)
(***************************************************************************)
EXTENDS Integers, Sequences, FiniteSets, Bags, TLC

\* ---------------------------------------------------------------- bounds
MaxTime == 2
MaxPolls == 2
MaxOptions == 2
MaxPollOptions == 4
MaxOptionsPerPoll == 2
MaxTitleLen == 2

\* handlers/polls.rs: "Poll must have at least 2 options"
MinOptions == 2

\* tasks that serve requests concurrently, and the usernames that are tried
Workers == {"w1", "w2"}
Usernames == {"admin", "guest"}

PollIds == 1..MaxPolls
OptionIds == 1..MaxOptions
PollOptionIds == 1..MaxPollOptions
UserIds == 1..Cardinality(Usernames)
ExpiryTimes == {1}

\* titles are strings over a blank and a letter
Chars == {" ", "a"}
Titles == UNION {[1..n -> Chars] : n \in 0..MaxTitleLen}

\* the title of the polls whose title does not matter
PollTitle == <<"a">>

\* option texts: a plain word, a date and time as the form sends it
\* (YYYY-MM-DDTHH:MM), and a long text with a T that is no date
DateTextLen == 16
PlainOption == <<"a">>
DateOption == [i \in 1..DateTextLen |->
                 IF i \in {5, 8} THEN "-" ELSE IF i = 11 THEN "T"
                 ELSE IF i = 14 THEN ":" ELSE "1"]
LongOption == [i \in 1..DateTextLen |-> IF i = 1 THEN "T" ELSE "a"]
OptionTexts == {PlainOption, DateOption, LongOption}

\* Option<T>
None == {}
Some(x) == {x}

VARIABLES
    variant,         \* which application is deployed
    now,             \* the clock read by Utc::now() and datetime('now')
    users,           \* table users: [id, username, is_admin]
    polls,           \* table polls
    options,         \* table options (template) / poll_options (api): [id, poll_id]
    votes,           \* table votes, a bag of rows (rows differ only by id)
    next_poll_id,    \* AUTOINCREMENT sequence of polls
    next_option_id,  \* AUTOINCREMENT sequence of options
    votes_unique,    \* template schema: do the migrations declare UNIQUE(user_id, option_id)
    req,             \* per task: the request it serves, its locals, its outcome
    cast_parity,     \* history: successful toggle casts per (user, option), mod 2
    last_cast        \* history: target of the last successful api cast per (poll, user)

vars == <<variant, now, users, polls, options, votes, next_poll_id,
          next_option_id, votes_unique, req, cast_parity, last_cast>>

\* ---------------------------------------------------------------- helpers
RECURSIVE SumOver(_, _)
SumOver(S, f) ==
    IF S = {} THEN 0
    ELSE LET x == CHOOSE y \in S : TRUE IN f[x] + SumOver(S \ {x}, f)

\* rows of a bag that satisfy a WHERE clause
BagWhere(B, P(_)) == [r \in {x \in DOMAIN B : P(x)} |-> B[r]]

\* a task with no request
Idle ==
    [op |-> "none", pc |-> "idle", status |-> "none",
     user_id |-> 0, is_admin |-> FALSE, poll_id |-> 0, option_id |-> 0,
     target_id |-> 0, set_admin |-> FALSE, username |-> "",
     existing_vote |-> FALSE, was_expired |-> FALSE,
     options |-> {}, vote_counts |-> <<>>, remaining |-> 0,
     title |-> <<>>, requested |-> 0,
     expires_at |-> {}, is_active |-> FALSE, listed |-> {}, tx |-> <<>>,
     lookup_failed |-> FALSE, listed_expired |-> {}]

\* the response of a finished request, kept with the request's arguments
Done(r, status) ==
    [r EXCEPT !.pc = "done", !.status = status, !.existing_vote = FALSE,
              !.remaining = 0, !.tx = <<>>]

CanStart(w) == req[w].pc \in {"idle", "done"}

\* str::trim: the string without its leading and trailing whitespace
RECURSIVE trim_start(_)
trim_start(str) ==
    IF str # <<>> /\ Head(str) = " " THEN trim_start(Tail(str)) ELSE str

RECURSIVE trim_end(_)
trim_end(str) ==
    IF str # <<>> /\ str[Len(str)] = " "
    THEN trim_end(SubSeq(str, 1, Len(str) - 1)) ELSE str

trim(str) == trim_end(trim_start(str))

\* ---------------------------------------------------------------- schema
\* UNIQUE users.username
UsernameTaken(username) == \E u \in users : u.username = username

NextUserId == Cardinality(users) + 1

\* ---------------------------------------------------------------- clock
Tick ==
    /\ now < MaxTime
    /\ now' = now + 1
    /\ UNCHANGED <<variant, users, polls, options, votes, next_poll_id,
                   next_option_id, votes_unique, req>>

\* ================================================================ template
\* the foreign key on option_id left out
VoteForeignKeysUserOnly(user_id, option_id) ==
    \E u \in users : u.id = user_id

\* db/schema.rs: FOREIGN KEY (user_id) REFERENCES users, (option_id) REFERENCES options
VoteForeignKeys(user_id, option_id) ==
    /\ \E o \in options : o.id = option_id
    /\ \E u \in users : u.id = user_id

\* controllers/polls.rs get_poll_by_id: the poll joined with its creator
get_poll_by_id(poll_id) ==
    {p \in polls : p.id = poll_id /\ \E u \in users : u.id = p.creator_id}

\* controllers/polls.rs get_poll_options: options with their vote counts
get_poll_options(poll_id) ==
    {[id |-> o.id,
      vote_count |-> BagCardinality(BagWhere(votes, LAMBDA v : v.option_id = o.id))]
        : o \in {x \in options : x.poll_id = poll_id}}

\* controllers/polls.rs format_poll_for_template: total_votes
total_votes_for_template(opts) ==
    SumOver({o.id : o \in opts},
            [i \in {o.id : o \in opts} |->
                (CHOOSE o \in opts : o.id = i).vote_count])

\* controllers/users.rs add_user_controller: the existence check
AddUserCheck(w) ==
    /\ variant = "template"
    /\ CanStart(w)
    /\ \E admin \in users, username \in Usernames, is_admin \in BOOLEAN :
        /\ admin.is_admin
        /\ LET r == [Idle EXCEPT !.op = "add_user", !.user_id = admin.id,
                                 !.is_admin = admin.is_admin,
                                 !.username = username, !.set_admin = is_admin]
           IN req' = [req EXCEPT ![w] =
                        IF UsernameTaken(username)
                        THEN Done(r, "username_exists")
                        ELSE [r EXCEPT !.pc = "add_user_insert"]]
    /\ UNCHANGED <<variant, now, users, polls, options, votes, next_poll_id,
                   next_option_id, votes_unique>>

\* controllers/users.rs add_user_controller: the insert
AddUserInsert(w) ==
    /\ req[w].pc = "add_user_insert"
    /\ IF UsernameTaken(req[w].username)
       THEN /\ req' = [req EXCEPT ![w] = Done(req[w], "error")]
            /\ users' = users
       ELSE /\ users' = users \cup {[id |-> NextUserId,
                                     username |-> req[w].username,
                                     is_admin |-> req[w].set_admin]}
            /\ req' = [req EXCEPT ![w] = Done(req[w], "created")]
    /\ UNCHANGED <<variant, now, polls, options, votes, next_poll_id,
                   next_option_id, votes_unique>>

\* the count taken over the users that are not admins
admin_count_of_others(us) == Cardinality({u \in us : ~u.is_admin})

\* db/mod.rs init_default_admin: SELECT COUNT(*) FROM users WHERE is_admin = 1
admin_count(us) == Cardinality({u \in us : u.is_admin})

\* db/mod.rs init_default_admin: the count of admins
init_default_admin(w) ==
    /\ variant = "template"
    /\ CanStart(w)
    /\ LET r == [Idle EXCEPT !.op = "init_default_admin", !.username = "admin"]
       IN  req' = [req EXCEPT ![w] =
                    IF admin_count(users) = 0
                    THEN [r EXCEPT !.pc = "init_admin_insert"]
                    ELSE Done(r, "skipped")]
    /\ UNCHANGED <<variant, now, users, polls, options, votes, next_poll_id,
                   next_option_id, votes_unique>>

\* db/mod.rs init_default_admin: INSERT INTO users ... VALUES ('admin', ?, 1)
InitAdminInsert(w) ==
    /\ req[w].pc = "init_admin_insert"
    /\ IF UsernameTaken("admin")
       THEN /\ req' = [req EXCEPT ![w] = Done(req[w], "error")]
            /\ users' = users
       ELSE /\ users' = users \cup {[id |-> NextUserId, username |-> "admin",
                                     is_admin |-> TRUE]}
            /\ req' = [req EXCEPT ![w] = Done(req[w], "created")]
    /\ UNCHANGED <<variant, now, polls, options, votes, next_poll_id,
                   next_option_id, votes_unique>>

\* controllers/polls.rs create_poll: option.contains("T") && option.len() >= 16
looks_like_date(text) ==
    (\E i \in DOMAIN text : text[i] = "T") /\ Len(text) >= DateTextLen

\* chrono parse_from_rfc3339 of the text followed by ":00Z": the text is
\* YYYY-MM-DDTHH:MM
parse_from_rfc3339(text) ==
    IF /\ Len(text) = DateTextLen
       /\ \A i \in DOMAIN text :
             text[i] = (IF i \in {5, 8} THEN "-" ELSE IF i = 11 THEN "T"
                        ELSE IF i = 14 THEN ":" ELSE "1")
    THEN Some(text) ELSE None

\* controllers/polls.rs create_poll: the option row of a text
option_row(id, poll_id, text) ==
    LET is_date == looks_like_date(text)
    IN  [id |-> id, poll_id |-> poll_id, is_date |-> is_date,
         date_time |-> IF is_date THEN parse_from_rfc3339(text) ELSE None]

\* routes/mod.rs create_poll_post, controllers/polls.rs create_poll: poll and
\* options in one transaction, the title taken from `titles`, the expiry
\* from `expiries` and the option texts from `texts`
create_poll_with(w, titles, expiries, texts) ==
    /\ variant = "template"
    /\ CanStart(w)
    /\ next_poll_id <= MaxPolls
    /\ \E u \in users, expires_at \in expiries, n \in 0..MaxOptionsPerPoll,
          title \in titles :
        /\ next_option_id + n - 1 <= MaxOptions
        /\ polls' = polls \cup {[id |-> next_poll_id, creator_id |-> u.id,
                                 expires_at |-> expires_at, title |-> title]}
        /\ \E text \in [next_option_id..(next_option_id + n - 1) -> texts] :
              options' = options \cup
                  {option_row(i, next_poll_id, text[i]) : i \in DOMAIN text}
        /\ next_poll_id' = next_poll_id + 1
        /\ next_option_id' = next_option_id + n
        /\ req' = [req EXCEPT ![w] =
              Done([Idle EXCEPT !.op = "create_poll", !.user_id = u.id,
                                !.poll_id = next_poll_id, !.title = title,
                                !.requested = n], "created")]
    /\ UNCHANGED <<variant, now, users, votes, votes_unique>>

create_poll_expiring(w, titles, expiries) ==
    create_poll_with(w, titles, expiries, {PlainOption})

create_poll_titled(w, titles) == create_poll_expiring(w, titles, ExpiryTimes)

create_poll(w) == create_poll_titled(w, {PollTitle})

\* controllers/polls.rs get_active_polls: ... JOIN users ... WHERE
\* p.expires_at > datetime('now'); both sides are taken as instants
get_active_polls(t) ==
    {p.id : p \in {x \in polls : /\ \E u \in users : u.id = x.creator_id
                                 /\ x.expires_at > t}}

\* the expired list with the boundary left out
get_expired_polls_strict(t) ==
    {p.id : p \in {x \in polls : /\ \E u \in users : u.id = x.creator_id
                                 /\ x.expires_at < t}}

\* controllers/polls.rs get_expired_polls: ... WHERE p.expires_at <= datetime('now')
get_expired_polls(t) ==
    {p.id : p \in {x \in polls : /\ \E u \in users : u.id = x.creator_id
                                 /\ x.expires_at <= t}}

\* controllers/polls.rs format_poll_for_template: "is_expired"
is_expired(expires_at, t) == expires_at <= t

\* routes/mod.rs dashboard: get_active_polls
dashboard(w) ==
    /\ variant = "template"
    /\ CanStart(w)
    /\ \E u \in users :
          req' = [req EXCEPT ![w] =
                    [Idle EXCEPT !.op = "dashboard", !.user_id = u.id,
                                 !.pc = "expired_polls",
                                 !.listed = get_active_polls(now)]]
    /\ UNCHANGED <<variant, now, users, polls, options, votes, next_poll_id,
                   next_option_id, votes_unique>>

\* routes/mod.rs dashboard: get_expired_polls, then the page is rendered
DashboardExpired(w) ==
    /\ req[w].pc = "expired_polls"
    /\ req' = [req EXCEPT ![w] =
          Done([req[w] EXCEPT !.listed_expired = get_expired_polls(now)], "ok")]
    /\ UNCHANGED <<variant, now, users, polls, options, votes, next_poll_id,
                   next_option_id, votes_unique>>

\* routes/mod.rs vote_on_poll: if poll.expires_at <= chrono::Utc::now()
vote_closed(expires_at, t) == expires_at <= t

\* routes/mod.rs vote_on_poll: poll lookup and expiry check
VoteOnPollRoute(w) ==
    /\ variant = "template"
    /\ CanStart(w)
    /\ \E u \in users, poll_id \in PollIds, option_id \in OptionIds :
        LET r == [Idle EXCEPT !.op = "vote_on_poll", !.user_id = u.id,
                              !.poll_id = poll_id, !.option_id = option_id]
            found == get_poll_by_id(poll_id)
        IN  IF found = {}
            THEN req' = [req EXCEPT ![w] = Done(r, "poll_not_found")]
            ELSE LET poll == CHOOSE p \in found : TRUE IN
                 IF vote_closed(poll.expires_at, now)
                 THEN req' = [req EXCEPT ![w] =
                         Done([r EXCEPT !.was_expired = (poll.expires_at < now)],
                              "poll_expired")]
                 ELSE req' = [req EXCEPT ![w] = [r EXCEPT !.pc = "vote_select"]]
    /\ UNCHANGED <<variant, now, users, polls, options, votes, next_poll_id,
                   next_option_id, votes_unique>>

\* controllers/polls.rs vote_on_poll: SELECT id FROM votes WHERE user_id, option_id
VoteSelect(w) ==
    /\ req[w].pc = "vote_select"
    /\ req' = [req EXCEPT ![w] =
          [req[w] EXCEPT !.pc = "vote_write",
                         !.existing_vote =
                             BagIn([user_id |-> req[w].user_id,
                                    option_id |-> req[w].option_id], votes)]]
    /\ UNCHANGED <<variant, now, users, polls, options, votes, next_poll_id,
                   next_option_id, votes_unique>>

\* the DELETE without the user: every vote on the option is removed
DeleteVoteAnyUser(vs, user_id, option_id) ==
    BagWhere(vs, LAMBDA v : v.option_id # option_id)

\* the DELETE without the option: every vote of the user is removed
DeleteVoteOfUser(vs, user_id, option_id) ==
    BagWhere(vs, LAMBDA v : v.user_id # user_id)

\* the DELETE with its two binds in the wrong order
DeleteVoteSwappedBinds(vs, user_id, option_id) ==
    BagWhere(vs, LAMBDA v : ~(v.user_id = option_id /\ v.option_id = user_id))

\* DELETE FROM votes WHERE user_id = ? AND option_id = ?
DeleteVote(vs, user_id, option_id) ==
    BagWhere(vs, LAMBDA v : ~(v.user_id = user_id /\ v.option_id = option_id))

\* db/schema.rs: INSERT INTO votes (user_id, option_id) is accepted by the schema
InsertVoteAccepted(vs, user_id, option_id) ==
    /\ VoteForeignKeys(user_id, option_id)
    /\ votes_unique => ~BagIn([user_id |-> user_id, option_id |-> option_id], vs)

\* controllers/polls.rs vote_on_poll: the DELETE or the INSERT
VoteWrite(w) ==
    /\ req[w].pc = "vote_write"
    /\ LET user_id == req[w].user_id
           option_id == req[w].option_id
       IN  IF req[w].existing_vote
           THEN /\ votes' = DeleteVote(votes, user_id, option_id)
                /\ req' = [req EXCEPT ![w] = Done(req[w], "removed")]
           ELSE IF InsertVoteAccepted(votes, user_id, option_id)
           THEN /\ votes' = votes (+) SetToBag({[user_id |-> user_id,
                                                 option_id |-> option_id]})
                /\ req' = [req EXCEPT ![w] = Done(req[w], "recorded")]
           ELSE /\ votes' = votes
                /\ req' = [req EXCEPT ![w] = Done(req[w], "error")]
    /\ UNCHANGED <<variant, now, users, polls, options, next_poll_id,
                   next_option_id, votes_unique>>

\* routes/mod.rs poll_detail: get_poll_by_id
PollDetail(w) ==
    /\ variant = "template"
    /\ CanStart(w)
    /\ \E u \in users, poll_id \in PollIds :
        LET r == [Idle EXCEPT !.op = "poll_detail", !.user_id = u.id,
                              !.poll_id = poll_id]
            found == get_poll_by_id(poll_id)
        IN  IF found = {}
            THEN req' = [req EXCEPT ![w] = Done(r, "not_found")]
            ELSE LET poll == CHOOSE p \in found : TRUE IN
                 req' = [req EXCEPT ![w] =
                    [r EXCEPT !.pc = "detail_options",
                              !.was_expired = (poll.expires_at < now)]]
    /\ UNCHANGED <<variant, now, users, polls, options, votes, next_poll_id,
                   next_option_id, votes_unique>>

\* routes/mod.rs poll_detail: get_poll_options
PollDetailOptions(w) ==
    /\ req[w].pc = "detail_options"
    /\ req' = [req EXCEPT ![w] =
          [req[w] EXCEPT !.pc = "detail_user_votes",
                         !.options = get_poll_options(req[w].poll_id)]]
    /\ UNCHANGED <<variant, now, users, polls, options, votes, next_poll_id,
                   next_option_id, votes_unique>>

\* routes/mod.rs poll_detail: get_user_votes, then the page is rendered
PollDetailUserVotes(w) ==
    /\ req[w].pc = "detail_user_votes"
    /\ req' = [req EXCEPT ![w] = Done(req[w], "ok")]
    /\ UNCHANGED <<variant, now, users, polls, options, votes, next_poll_id,
                   next_option_id, votes_unique>>

\* routes/mod.rs poll_detail: get_user_votes returns an error, which
\* map_err turns into Status::InternalServerError
PollDetailUserVotesFails(w) ==
    /\ req[w].pc = "detail_user_votes"
    /\ req' = [req EXCEPT ![w] =
                 Done([req[w] EXCEPT !.lookup_failed = TRUE], "error")]
    /\ UNCHANGED <<variant, now, users, polls, options, votes, next_poll_id,
                   next_option_id, votes_unique>>

\* the permission check without the comparison of creator_id
DeletePermittedAnyCreator(is_admin, user_id, poll_id) ==
    \/ is_admin
    \/ \E p \in polls : p.id = poll_id

\* controllers/polls.rs delete_poll: the permission check
DeletePermitted(is_admin, user_id, poll_id) ==
    \/ is_admin
    \/ \E p \in polls : p.id = poll_id /\ p.creator_id = user_id

\* routes/mod.rs delete_poll, controllers/polls.rs delete_poll up to the check
delete_poll(w) ==
    /\ variant = "template"
    /\ CanStart(w)
    /\ \E u \in users, poll_id \in PollIds :
        LET r == [Idle EXCEPT !.op = "delete_poll", !.user_id = u.id,
                              !.is_admin = u.is_admin, !.poll_id = poll_id]
        IN  req' = [req EXCEPT ![w] =
                IF DeletePermitted(u.is_admin, u.id, poll_id)
                THEN [r EXCEPT !.pc = "delete_tx"]
                ELSE Done(r, "forbidden")]
    /\ UNCHANGED <<variant, now, users, polls, options, votes, next_poll_id,
                   next_option_id, votes_unique>>

\* the DELETE comparing option_id with the poll id instead of the subquery
DeleteVotesOfOption(vs, poll_id) ==
    BagWhere(vs, LAMBDA v : v.option_id # poll_id)

\* DELETE FROM votes WHERE option_id IN (SELECT id FROM options WHERE poll_id = ?)
DeleteVotesOfPoll(vs, poll_id) ==
    BagWhere(vs, LAMBDA v :
        ~(\E o \in options : o.poll_id = poll_id /\ o.id = v.option_id))

\* controllers/polls.rs delete_poll: votes, options, poll in one transaction
DeletePollTx(w) ==
    /\ req[w].pc = "delete_tx"
    /\ votes' = DeleteVotesOfPoll(votes, req[w].poll_id)
    /\ options' = {o \in options : o.poll_id # req[w].poll_id}
    /\ polls' = {p \in polls : p.id # req[w].poll_id}
    /\ req' = [req EXCEPT ![w] = Done(req[w], "deleted")]
    /\ UNCHANGED <<variant, now, users, next_poll_id, next_option_id,
                   votes_unique>>

\* the three DELETEs with the poll row removed first
delete_statement_poll_first(step, tx, poll_id) ==
    IF step = 1
    THEN [tx EXCEPT !.step = 2,
                    !.polls = {p \in tx.polls : p.id # poll_id}]
    ELSE IF step = 2
    THEN [tx EXCEPT !.step = 3,
                    !.options = {o \in tx.options : o.poll_id # poll_id}]
    ELSE [tx EXCEPT !.step = 4,
                    !.votes = BagWhere(tx.votes, LAMBDA v :
                        ~(\E o \in tx.options :
                             o.poll_id = poll_id /\ o.id = v.option_id))]

\* controllers/polls.rs delete_poll: the statements of the transaction, in
\* the order of the code, applied to what the transaction sees
delete_statement(step, tx, poll_id) ==
    IF step = 1
    THEN [tx EXCEPT !.step = 2,
                    !.votes = BagWhere(tx.votes, LAMBDA v :
                        ~(\E o \in tx.options :
                             o.poll_id = poll_id /\ o.id = v.option_id))]
    ELSE IF step = 2
    THEN [tx EXCEPT !.step = 3,
                    !.options = {o \in tx.options : o.poll_id # poll_id}]
    ELSE [tx EXCEPT !.step = 4,
                    !.polls = {p \in tx.polls : p.id # poll_id}]

\* controllers/polls.rs delete_poll: pool.begin()
DeletePollBegin(w) ==
    /\ req[w].pc = "delete_tx"
    /\ req' = [req EXCEPT ![w] =
          [req[w] EXCEPT !.pc = "delete_statement",
                         !.tx = [step |-> 1, votes |-> votes,
                                 options |-> options, polls |-> polls]]]
    /\ UNCHANGED <<variant, now, users, polls, options, votes, next_poll_id,
                   next_option_id, votes_unique>>

\* controllers/polls.rs delete_poll: one DELETE inside the transaction
DeletePollStatement(w) ==
    /\ req[w].pc = "delete_statement"
    /\ req[w].tx.step <= 3
    /\ req' = [req EXCEPT ![w] =
          [req[w] EXCEPT !.tx = delete_statement(@.step, @, req[w].poll_id)]]
    /\ UNCHANGED <<variant, now, users, polls, options, votes, next_poll_id,
                   next_option_id, votes_unique>>

\* controllers/polls.rs delete_poll: a statement or the commit returns an
\* error, `?` leaves the function and the dropped transaction is rolled back
DeletePollFails(w) ==
    /\ req[w].pc = "delete_statement"
    /\ req' = [req EXCEPT ![w] = Done(req[w], "error")]
    /\ UNCHANGED <<variant, now, users, polls, options, votes, next_poll_id,
                   next_option_id, votes_unique>>

\* controllers/polls.rs delete_poll: tx.commit()
DeletePollCommit(w) ==
    /\ req[w].pc = "delete_statement"
    /\ req[w].tx.step = 4
    /\ votes' = req[w].tx.votes
    /\ options' = req[w].tx.options
    /\ polls' = req[w].tx.polls
    /\ req' = [req EXCEPT ![w] = Done(req[w], "deleted")]
    /\ UNCHANGED <<variant, now, users, next_poll_id, next_option_id,
                   votes_unique>>

\* the own-role check left out
OwnRoleUnchecked(user_id, admin_id) == FALSE

\* controllers/users.rs toggle_user_role: the own-role check
OwnRole(user_id, admin_id) == user_id = admin_id

\* auth.rs AdminUser guard, routes/mod.rs and controllers/users.rs toggle_user_role
toggle_user_role(w) ==
    /\ variant = "template"
    /\ CanStart(w)
    /\ \E admin \in users, user_id \in UserIds, set_admin \in BOOLEAN :
        LET r == [Idle EXCEPT !.op = "toggle_user_role", !.user_id = admin.id,
                              !.is_admin = admin.is_admin,
                              !.target_id = user_id, !.set_admin = set_admin]
        IN  req' = [req EXCEPT ![w] =
                IF ~admin.is_admin THEN Done(r, "forbidden")
                ELSE IF OwnRole(user_id, admin.id) THEN Done(r, "own_role")
                ELSE [r EXCEPT !.pc = "role_exists"]]
    /\ UNCHANGED <<variant, now, users, polls, options, votes, next_poll_id,
                   next_option_id, votes_unique>>

\* controllers/users.rs toggle_user_role: SELECT EXISTS(... WHERE id = ?)
RoleUserExists(w) ==
    /\ req[w].pc = "role_exists"
    /\ req' = [req EXCEPT ![w] =
          IF \E u \in users : u.id = req[w].target_id
          THEN [req[w] EXCEPT !.pc = "role_update"]
          ELSE Done(req[w], "user_not_found")]
    /\ UNCHANGED <<variant, now, users, polls, options, votes, next_poll_id,
                   next_option_id, votes_unique>>

\* controllers/users.rs toggle_user_role: UPDATE users SET is_admin = ? WHERE id = ?
RoleUpdate(w) ==
    /\ req[w].pc = "role_update"
    /\ users' = {IF u.id = req[w].target_id
                 THEN [u EXCEPT !.is_admin = req[w].set_admin] ELSE u : u \in users}
    /\ req' = [req EXCEPT ![w] = Done(req[w], "updated")]
    /\ UNCHANGED <<variant, now, polls, options, votes, next_poll_id,
                   next_option_id, votes_unique>>

\* ================================================================ api
\* db.rs get_poll
get_poll(poll_id) == {p \in polls : p.id = poll_id}

\* handlers/auth.rs register: get_user_by_username
register(w) ==
    /\ variant = "api"
    /\ CanStart(w)
    /\ \E username \in Usernames :
        LET r == [Idle EXCEPT !.op = "register", !.username = username]
        IN  req' = [req EXCEPT ![w] =
                IF UsernameTaken(username)
                THEN Done(r, "username_taken")
                ELSE [r EXCEPT !.pc = "create_user"]]
    /\ UNCHANGED <<variant, now, users, polls, options, votes, next_poll_id,
                   next_option_id, votes_unique>>

\* handlers/auth.rs register: db.rs create_user (non-admin)
RegisterCreateUser(w) ==
    /\ req[w].pc = "create_user"
    /\ IF UsernameTaken(req[w].username)
       THEN /\ req' = [req EXCEPT ![w] = Done(req[w], "error")]
            /\ users' = users
       ELSE /\ users' = users \cup {[id |-> NextUserId,
                                     username |-> req[w].username,
                                     is_admin |-> FALSE]}
            /\ req' = [req EXCEPT ![w] =
                          Done([req[w] EXCEPT !.user_id = NextUserId], "created")]
    /\ UNCHANGED <<variant, now, polls, options, votes, next_poll_id,
                   next_option_id, votes_unique>>

\* handlers/polls.rs create_new_poll: validation, then db.rs create_poll; the
\* title taken from `titles`
create_new_poll_titled(w, titles) ==
    /\ variant = "api"
    /\ CanStart(w)
    /\ \E u \in users, expires_at \in {None} \cup {Some(t) : t \in ExpiryTimes},
          n \in 0..MaxOptionsPerPoll, title \in titles :
        LET r == [Idle EXCEPT !.op = "create_new_poll", !.user_id = u.id,
                              !.is_admin = u.is_admin, !.title = title,
                              !.requested = n]
        IN  IF trim(title) = <<>> \/ n < MinOptions
            THEN /\ req' = [req EXCEPT ![w] = Done(r, "bad_request")]
                 /\ UNCHANGED <<polls, next_poll_id>>
            ELSE /\ next_poll_id <= MaxPolls
                 /\ next_option_id + n - 1 <= MaxPollOptions
                 /\ polls' = polls \cup {[id |-> next_poll_id, created_by |-> u.id,
                                          expires_at |-> expires_at,
                                          is_active |-> TRUE, title |-> title]}
                 /\ next_poll_id' = next_poll_id + 1
                 /\ req' = [req EXCEPT ![w] =
                        [r EXCEPT !.pc = "add_poll_option",
                                  !.poll_id = next_poll_id, !.remaining = n]]
    /\ UNCHANGED <<variant, now, users, options, votes, next_option_id,
                   votes_unique>>

create_new_poll(w) == create_new_poll_titled(w, {PollTitle})

\* handlers/polls.rs create_new_poll: db.rs add_poll_option, one option per step
add_poll_option(w) ==
    /\ req[w].pc = "add_poll_option"
    /\ options' = options \cup {[id |-> next_option_id, poll_id |-> req[w].poll_id]}
    /\ next_option_id' = next_option_id + 1
    /\ req' = [req EXCEPT ![w] =
          [req[w] EXCEPT !.remaining = @ - 1,
                         !.pc = IF req[w].remaining = 1
                                THEN "fetch_created" ELSE "add_poll_option"]]
    /\ UNCHANGED <<variant, now, users, polls, votes, next_poll_id, votes_unique>>

\* handlers/polls.rs create_new_poll: get_poll and get_poll_options of the new poll
FetchCreatedPoll(w) ==
    /\ req[w].pc = "fetch_created"
    /\ req' = [req EXCEPT ![w] =
          IF get_poll(req[w].poll_id) = {}
          THEN Done(req[w], "error")
          ELSE Done([req[w] EXCEPT !.options =
                        {o.id : o \in {x \in options : x.poll_id = req[w].poll_id}}],
                    "created")]
    /\ UNCHANGED <<variant, now, users, polls, options, votes, next_poll_id,
                   next_option_id, votes_unique>>

\* the permission check left out
UpdatePermittedUnchecked(poll, user_id, is_admin) == TRUE

\* handlers/polls.rs update_poll: only the poll creator or an admin can update
UpdatePermitted(poll, user_id, is_admin) ==
    ~(poll.created_by # user_id /\ ~is_admin)

\* handlers/polls.rs update_poll: get_poll and the permission check
update_poll(w) ==
    /\ variant = "api"
    /\ CanStart(w)
    /\ \E u \in users, poll_id \in PollIds, is_active \in BOOLEAN,
          expires_at \in {None} \cup {Some(t) : t \in ExpiryTimes} :
        LET r == [Idle EXCEPT !.op = "update_poll", !.user_id = u.id,
                              !.is_admin = u.is_admin, !.poll_id = poll_id,
                              !.title = PollTitle, !.expires_at = expires_at,
                              !.is_active = is_active]
            found == get_poll(poll_id)
        IN  req' = [req EXCEPT ![w] =
                IF found = {} THEN Done(r, "not_found")
                ELSE IF ~UpdatePermitted(CHOOSE p \in found : TRUE, u.id, u.is_admin)
                THEN Done(r, "forbidden")
                ELSE [r EXCEPT !.pc = "update_write"]]
    /\ UNCHANGED <<variant, now, users, polls, options, votes, next_poll_id,
                   next_option_id, votes_unique>>

\* handlers/polls.rs update_poll: UPDATE polls SET title, description,
\* expires_at, is_active WHERE id = ?
UpdatePollWrite(w) ==
    /\ req[w].pc = "update_write"
    /\ polls' = {IF p.id = req[w].poll_id
                 THEN [p EXCEPT !.title = req[w].title,
                                !.expires_at = req[w].expires_at,
                                !.is_active = req[w].is_active]
                 ELSE p : p \in polls}
    /\ req' = [req EXCEPT ![w] = Done(req[w], "ok")]
    /\ UNCHANGED <<variant, now, users, options, votes, next_poll_id,
                   next_option_id, votes_unique>>

\* db.rs update_poll_statuses: UPDATE polls SET is_active = FALSE WHERE
\* expires_at IS NOT NULL AND expires_at < datetime('now') AND is_active = TRUE
update_poll_statuses(ps, t) ==
    {IF p.is_active /\ \E e \in p.expires_at : e < t
     THEN [p EXCEPT !.is_active = FALSE] ELSE p : p \in ps}

\* db.rs list_polls with active_only
list_polls(ps) == {p.id : p \in {x \in ps : x.is_active}}

\* handlers/polls.rs get_all_polls: the status sweep
get_all_polls(w) ==
    /\ variant = "api"
    /\ CanStart(w)
    /\ polls' = update_poll_statuses(polls, now)
    /\ \E u \in users :
          req' = [req EXCEPT ![w] =
                    [Idle EXCEPT !.op = "get_all_polls", !.user_id = u.id,
                                 !.pc = "list_polls"]]
    /\ UNCHANGED <<variant, now, users, options, votes, next_poll_id,
                   next_option_id, votes_unique>>

\* handlers/polls.rs get_all_polls: list_polls(active_only = true)
GetAllPollsList(w) ==
    /\ req[w].pc = "list_polls"
    /\ req' = [req EXCEPT ![w] =
                 Done([req[w] EXCEPT !.listed = list_polls(polls)], "ok")]
    /\ UNCHANGED <<variant, now, users, polls, options, votes, next_poll_id,
                   next_option_id, votes_unique>>

\* the expiry comparison with its operands exchanged
expiry_passed_reversed(expires_at, t) == \E e \in expires_at : t < e

\* handlers/polls.rs add_vote: if let Some(expires_at) ... expires_at < Utc::now()
expiry_passed(expires_at, t) == \E e \in expires_at : e < t

\* handlers/polls.rs add_vote: get_poll, the is_active check, the expiry check
add_vote(w) ==
    /\ variant = "api"
    /\ CanStart(w)
    /\ \E u \in users, poll_id \in PollIds, option_id \in PollOptionIds :
        LET r == [Idle EXCEPT !.op = "add_vote", !.user_id = u.id,
                              !.poll_id = poll_id, !.option_id = option_id]
            found == get_poll(poll_id)
        IN  IF found = {}
            THEN req' = [req EXCEPT ![w] = Done(r, "poll_not_found")]
            ELSE LET poll == CHOOSE p \in found : TRUE
                     rx == [r EXCEPT !.was_expired =
                                        (\E t \in poll.expires_at : t < now)]
                 IN  IF ~poll.is_active
                     THEN req' = [req EXCEPT ![w] = Done(rx, "poll_inactive")]
                     ELSE IF expiry_passed(poll.expires_at, now)
                     THEN req' = [req EXCEPT ![w] = Done(rx, "poll_expired")]
                     ELSE req' = [req EXCEPT ![w] = [rx EXCEPT !.pc = "option_exists"]]
    /\ UNCHANGED <<variant, now, users, polls, options, votes, next_poll_id,
                   next_option_id, votes_unique>>

\* the option counted whichever poll it belongs to
option_exists_in_any_poll(poll_id, option_id) ==
    Cardinality({o \in options : o.id = option_id})

\* handlers/polls.rs add_vote: SELECT COUNT(*) FROM poll_options WHERE id, poll_id
option_exists(poll_id, option_id) ==
    Cardinality({o \in options : o.id = option_id /\ o.poll_id = poll_id})

\* handlers/polls.rs add_vote: the option check
AddVoteOptionExists(w) ==
    /\ req[w].pc = "option_exists"
    /\ req' = [req EXCEPT ![w] =
          IF option_exists(req[w].poll_id, req[w].option_id) > 0
          THEN [req[w] EXCEPT !.pc = "vote"]
          ELSE Done(req[w], "invalid_option")]
    /\ UNCHANGED <<variant, now, users, polls, options, votes, next_poll_id,
                   next_option_id, votes_unique>>

\* db.rs init_db: the constraints of table votes
VotesConstraints(vs, poll_id, option_id, user_id) ==
    /\ \E p \in polls : p.id = poll_id
    /\ \E o \in options : o.id = option_id
    /\ \E u \in users : u.id = user_id
    /\ ~\E v \in DOMAIN vs : v.poll_id = poll_id /\ v.user_id = user_id

\* INSERT OR IGNORE without the DELETE: an earlier vote of the user stays
vote_insert_or_ignore(vs, poll_id, option_id, user_id) ==
    IF VotesConstraints(vs, poll_id, option_id, user_id)
    THEN [ok |-> TRUE,
          votes |-> vs (+) SetToBag({[poll_id |-> poll_id,
                                      option_id |-> option_id,
                                      user_id |-> user_id]})]
    ELSE [ok |-> TRUE, votes |-> vs]

\* db.rs vote: DELETE the user's vote in the poll, INSERT the new one, commit
vote(vs, poll_id, option_id, user_id) ==
    LET deleted == BagWhere(vs, LAMBDA v :
                       ~(v.poll_id = poll_id /\ v.user_id = user_id))
    IN  IF VotesConstraints(deleted, poll_id, option_id, user_id)
        THEN [ok |-> TRUE,
              votes |-> deleted (+) SetToBag({[poll_id |-> poll_id,
                                               option_id |-> option_id,
                                               user_id |-> user_id]})]
        ELSE [ok |-> FALSE, votes |-> vs]

\* handlers/polls.rs add_vote: submit the vote
AddVoteSubmit(w) ==
    /\ req[w].pc = "vote"
    /\ LET res == vote(votes, req[w].poll_id, req[w].option_id, req[w].user_id)
       IN  /\ votes' = res.votes
           /\ req' = [req EXCEPT ![w] =
                        Done(req[w], IF res.ok THEN "ok" ELSE "error")]
    /\ UNCHANGED <<variant, now, users, polls, options, next_poll_id,
                   next_option_id, votes_unique>>

\* the two statements committed one by one: the DELETE stays when the INSERT fails
vote_failed_autocommit(vs, poll_id, user_id) ==
    BagWhere(vs, LAMBDA v : ~(v.poll_id = poll_id /\ v.user_id = user_id))

\* db.rs vote: the INSERT returns an error, the transaction is dropped
\* without commit and its DELETE is rolled back
vote_failed(vs, poll_id, user_id) == vs

\* handlers/polls.rs add_vote: the vote fails with a database error
AddVoteSubmitFails(w) ==
    /\ req[w].pc = "vote"
    /\ votes' = vote_failed(votes, req[w].poll_id, req[w].user_id)
    /\ req' = [req EXCEPT ![w] = Done(req[w], "error")]
    /\ UNCHANGED <<variant, now, users, polls, options, next_poll_id,
                   next_option_id, votes_unique>>

\* db.rs get_vote_counts: SELECT option_id, COUNT(*) ... WHERE poll_id GROUP BY option_id
get_vote_counts(poll_id) ==
    LET rows == BagWhere(votes, LAMBDA v : v.poll_id = poll_id)
    IN  [i \in {v.option_id : v \in DOMAIN rows} |->
            BagCardinality(BagWhere(rows, LAMBDA v : v.option_id = i))]

\* the percentage without the guard on total_votes
percentage_unguarded(vote_count, total_votes) == <<vote_count * 100, total_votes>>

\* handlers/polls.rs get_results: percentage, as the fraction numerator / denominator
percentage(vote_count, total_votes) ==
    IF total_votes > 0 THEN <<vote_count * 100, total_votes>> ELSE <<0, 1>>

\* handlers/polls.rs get_results: the PollResult built from the fetched rows
PollResult(opts, vote_count_map) ==
    LET total_votes == SumOver(DOMAIN vote_count_map, vote_count_map)
    IN  [total_votes |-> total_votes,
         options |->
            {[id |-> o,
              vote_count |-> IF o \in DOMAIN vote_count_map
                             THEN vote_count_map[o] ELSE 0,
              percentage |-> percentage(IF o \in DOMAIN vote_count_map
                                        THEN vote_count_map[o] ELSE 0,
                                        total_votes)] : o \in opts}]

\* handlers/polls.rs get_results: get_poll
get_results(w) ==
    /\ variant = "api"
    /\ CanStart(w)
    /\ \E u \in users, poll_id \in PollIds :
        LET r == [Idle EXCEPT !.op = "get_results", !.user_id = u.id,
                              !.poll_id = poll_id]
            found == get_poll(poll_id)
        IN  IF found = {}
            THEN req' = [req EXCEPT ![w] = Done(r, "not_found")]
            ELSE LET poll == CHOOSE p \in found : TRUE IN
                 req' = [req EXCEPT ![w] =
                    [r EXCEPT !.pc = "results_options",
                              !.was_expired = (\E t \in poll.expires_at : t < now)]]
    /\ UNCHANGED <<variant, now, users, polls, options, votes, next_poll_id,
                   next_option_id, votes_unique>>

\* handlers/polls.rs get_results: get_poll_options
ResultsOptions(w) ==
    /\ req[w].pc = "results_options"
    /\ req' = [req EXCEPT ![w] =
          [req[w] EXCEPT !.pc = "results_counts",
                         !.options = {o.id : o \in
                             {x \in options : x.poll_id = req[w].poll_id}}]]
    /\ UNCHANGED <<variant, now, users, polls, options, votes, next_poll_id,
                   next_option_id, votes_unique>>

\* handlers/polls.rs get_results: get_vote_counts
ResultsCounts(w) ==
    /\ req[w].pc = "results_counts"
    /\ req' = [req EXCEPT ![w] =
          [req[w] EXCEPT !.pc = "results_user_vote",
                         !.vote_counts = get_vote_counts(req[w].poll_id)]]
    /\ UNCHANGED <<variant, now, users, polls, options, votes, next_poll_id,
                   next_option_id, votes_unique>>

\* handlers/polls.rs get_results: get_user_vote, then the PollResult is returned
ResultsUserVote(w) ==
    /\ req[w].pc = "results_user_vote"
    /\ req' = [req EXCEPT ![w] = Done(req[w], "ok")]
    /\ UNCHANGED <<variant, now, users, polls, options, votes, next_poll_id,
                   next_option_id, votes_unique>>

\* handlers/polls.rs get_results: get_user_vote returns an error, user_vote
\* becomes None and the PollResult is returned
ResultsUserVoteFails(w) ==
    /\ req[w].pc = "results_user_vote"
    /\ req' = [req EXCEPT ![w] =
                 Done([req[w] EXCEPT !.lookup_failed = TRUE], "ok")]
    /\ UNCHANGED <<variant, now, users, polls, options, votes, next_poll_id,
                   next_option_id, votes_unique>>

\* ================================================================ histories
\* a successful toggle cast flips the parity of its (user, option) pair; a
\* successful api cast becomes the last cast of its (poll, user) pair
ObserveCasts(w) ==
    /\ cast_parity' =
          IF req[w].pc = "vote_write" /\ req'[w].status \in {"recorded", "removed"}
          THEN [cast_parity EXCEPT ![<<req[w].user_id, req[w].option_id>>] = 1 - @]
          ELSE cast_parity
    /\ last_cast' =
          IF req[w].pc = "vote" /\ req'[w].status = "ok"
          THEN [last_cast EXCEPT ![<<req[w].poll_id, req[w].user_id>>] =
                    req[w].option_id]
          ELSE last_cast

\* ================================================================ specifications
\* the state after start-up: the schema exists and the default admin was
\* created; `unique_index` says whether votes may carry UNIQUE(user_id, option_id)
Startup(variants, unique_index) ==
    /\ variant \in variants
    /\ now = 0
    /\ users = {[id |-> 1, username |-> "admin", is_admin |-> TRUE]}
    /\ polls = {}
    /\ options = {}
    /\ votes = EmptyBag
    /\ next_poll_id = 1
    /\ next_option_id = 1
    /\ votes_unique \in unique_index
    /\ req = [w \in Workers |-> Idle]
    /\ cast_parity = [k \in UserIds \X OptionIds |-> 0]
    /\ last_cast = [k \in PollIds \X UserIds |-> 0]

\* the schema as db/schema.rs declares it
Init == Startup({"api", "template"}, {TRUE})

InitTemplate == Startup({"template"}, {TRUE})

InitApi == Startup({"api"}, {TRUE})

\* main.rs takes the schema from the migrations at start-up: the template
\* application over a votes table with or without the index
InitEitherSchema == Startup({"template"}, BOOLEAN)

\* a step that completes no cast
Unobserved == UNCHANGED <<cast_parity, last_cast>>

TickStep == Tick /\ Unobserved

\* ---- the poll engine of both applications: the admin's requests, served
\* one after the other, while time passes
Next ==
    \/ TickStep
    \/ create_poll("w1") /\ Unobserved
    \/ VoteOnPollRoute("w1") /\ Unobserved
    \/ VoteSelect("w1") /\ Unobserved
    \/ VoteWrite("w1") /\ ObserveCasts("w1")
    \/ PollDetail("w1") /\ Unobserved
    \/ PollDetailOptions("w1") /\ Unobserved
    \/ PollDetailUserVotes("w1") /\ Unobserved
    \/ delete_poll("w1") /\ Unobserved
    \/ DeletePollTx("w1") /\ Unobserved
    \/ create_new_poll("w1") /\ Unobserved
    \/ add_poll_option("w1") /\ Unobserved
    \/ FetchCreatedPoll("w1") /\ Unobserved
    \/ add_vote("w1") /\ Unobserved
    \/ AddVoteOptionExists("w1") /\ Unobserved
    \/ AddVoteSubmit("w1") /\ ObserveCasts("w1")
    \/ get_results("w1") /\ Unobserved
    \/ ResultsOptions("w1") /\ Unobserved
    \/ ResultsCounts("w1") /\ Unobserved
    \/ ResultsUserVote("w1") /\ Unobserved

Spec == Init /\ [][Next]_vars

\* ---- both applications: polls are created, voted on and read while the
\* lookup of the viewer's own votes may fail
ReadsNext ==
    \/ create_poll("w1") /\ Unobserved
    \/ VoteOnPollRoute("w1") /\ Unobserved
    \/ VoteSelect("w1") /\ Unobserved
    \/ VoteWrite("w1") /\ ObserveCasts("w1")
    \/ PollDetail("w1") /\ Unobserved
    \/ PollDetailOptions("w1") /\ Unobserved
    \/ PollDetailUserVotes("w1") /\ Unobserved
    \/ PollDetailUserVotesFails("w1") /\ Unobserved
    \/ create_new_poll("w1") /\ Unobserved
    \/ add_poll_option("w1") /\ Unobserved
    \/ FetchCreatedPoll("w1") /\ Unobserved
    \/ add_vote("w1") /\ Unobserved
    \/ AddVoteOptionExists("w1") /\ Unobserved
    \/ AddVoteSubmit("w1") /\ ObserveCasts("w1")
    \/ get_results("w1") /\ Unobserved
    \/ ResultsOptions("w1") /\ Unobserved
    \/ ResultsCounts("w1") /\ Unobserved
    \/ ResultsUserVote("w1") /\ Unobserved
    \/ ResultsUserVoteFails("w1") /\ Unobserved

SpecReads == Init /\ [][ReadsNext]_vars

\* ---- both applications: users are created, create polls and cast votes,
\* one request at a time
CastsNext ==
    \/ AddUserCheck("w1") /\ Unobserved
    \/ AddUserInsert("w1") /\ Unobserved
    \/ create_poll("w1") /\ Unobserved
    \/ VoteOnPollRoute("w1") /\ Unobserved
    \/ VoteSelect("w1") /\ Unobserved
    \/ VoteWrite("w1") /\ Unobserved
    \/ register("w1") /\ Unobserved
    \/ RegisterCreateUser("w1") /\ Unobserved
    \/ create_new_poll("w1") /\ Unobserved
    \/ add_poll_option("w1") /\ Unobserved
    \/ FetchCreatedPoll("w1") /\ Unobserved
    \/ add_vote("w1") /\ Unobserved
    \/ AddVoteOptionExists("w1") /\ Unobserved
    \/ AddVoteSubmit("w1") /\ Unobserved

SpecCasts == Init /\ [][CastsNext]_vars

\* ---- template: users are added and toggle their votes, one request at a time
VotersNext ==
    \/ AddUserCheck("w1") /\ Unobserved
    \/ AddUserInsert("w1") /\ Unobserved
    \/ create_poll("w1") /\ Unobserved
    \/ VoteOnPollRoute("w1") /\ Unobserved
    \/ VoteSelect("w1") /\ Unobserved
    \/ VoteWrite("w1") /\ ObserveCasts("w1")

SpecVoters == InitTemplate /\ [][VotersNext]_vars

\* ---- template: users are added, create polls, vote and delete polls
OwnershipNext ==
    \/ AddUserCheck("w1") /\ Unobserved
    \/ AddUserInsert("w1") /\ Unobserved
    \/ create_poll("w1") /\ Unobserved
    \/ VoteOnPollRoute("w1") /\ Unobserved
    \/ VoteSelect("w1") /\ Unobserved
    \/ VoteWrite("w1") /\ Unobserved
    \/ delete_poll("w1") /\ Unobserved
    \/ DeletePollTx("w1") /\ Unobserved

SpecOwnership == InitTemplate /\ [][OwnershipNext]_vars

\* ---- template: two tasks cast toggle votes concurrently
ToggleRaceNext ==
    \/ TickStep
    \/ create_poll("w1") /\ Unobserved
    \/ \E w \in Workers :
          \/ VoteOnPollRoute(w) /\ Unobserved
          \/ VoteSelect(w) /\ Unobserved
          \/ VoteWrite(w) /\ Unobserved

SpecToggleRace == InitEitherSchema /\ [][ToggleRaceNext]_vars

\* ---- template: votes are cast while polls are created and deleted
DeleteRaceNext ==
    \/ create_poll("w1") /\ Unobserved
    \/ \E w \in Workers :
          \/ VoteOnPollRoute(w) /\ Unobserved
          \/ VoteSelect(w) /\ Unobserved
          \/ VoteWrite(w) /\ Unobserved
          \/ delete_poll(w) /\ Unobserved
          \/ DeletePollTx(w) /\ Unobserved

SpecDeleteRace == InitTemplate /\ [][DeleteRaceNext]_vars

\* ---- api: users register, create polls, vote and read results, one request
\* at a time
ApiVotersNext ==
    \/ register("w1") /\ Unobserved
    \/ RegisterCreateUser("w1") /\ Unobserved
    \/ create_new_poll("w1") /\ Unobserved
    \/ add_poll_option("w1") /\ Unobserved
    \/ FetchCreatedPoll("w1") /\ Unobserved
    \/ add_vote("w1") /\ Unobserved
    \/ AddVoteOptionExists("w1") /\ Unobserved
    \/ AddVoteSubmit("w1") /\ ObserveCasts("w1")
    \/ get_results("w1") /\ Unobserved
    \/ ResultsOptions("w1") /\ Unobserved
    \/ ResultsCounts("w1") /\ Unobserved
    \/ ResultsUserVote("w1") /\ Unobserved

SpecApiVoters == InitApi /\ [][ApiVotersNext]_vars

\* ---- api: polls are created and voted on while results are computed
ApiRaceNext ==
    \/ create_new_poll("w1") /\ Unobserved
    \/ add_poll_option("w1") /\ Unobserved
    \/ FetchCreatedPoll("w1") /\ Unobserved
    \/ \E w \in Workers :
          \/ add_vote(w) /\ Unobserved
          \/ AddVoteOptionExists(w) /\ Unobserved
          \/ AddVoteSubmit(w) /\ ObserveCasts(w)
          \/ AddVoteSubmitFails(w) /\ Unobserved
    \/ get_results("w2") /\ Unobserved
    \/ ResultsOptions("w2") /\ Unobserved
    \/ ResultsCounts("w2") /\ Unobserved
    \/ ResultsUserVote("w2") /\ Unobserved

SpecApiRace == InitApi /\ [][ApiRaceNext]_vars

\* ---- both applications: polls are created with any title and, in the
\* template application, any option text
CreateNext ==
    \/ create_poll_with("w1", Titles, ExpiryTimes, OptionTexts) /\ Unobserved
    \/ create_new_poll_titled("w1", Titles) /\ Unobserved
    \/ add_poll_option("w1") /\ Unobserved
    \/ FetchCreatedPoll("w1") /\ Unobserved

SpecCreate == Init /\ [][CreateNext]_vars

\* ---- api: users register, create polls and update them
ApiUpdateNext ==
    \/ register("w1") /\ Unobserved
    \/ RegisterCreateUser("w1") /\ Unobserved
    \/ create_new_poll("w1") /\ Unobserved
    \/ add_poll_option("w1") /\ Unobserved
    \/ FetchCreatedPoll("w1") /\ Unobserved
    \/ update_poll("w1") /\ Unobserved
    \/ UpdatePollWrite("w1") /\ Unobserved

SpecApiUpdate == InitApi /\ [][ApiUpdateNext]_vars

\* ---- api: the admin's polls are created and voted on by one task while
\* another updates and lists them and the clock advances
ApiExpiryNext ==
    \/ TickStep
    \/ create_new_poll("w1") /\ Unobserved
    \/ add_poll_option("w1") /\ Unobserved
    \/ FetchCreatedPoll("w1") /\ Unobserved
    \/ update_poll("w2") /\ Unobserved
    \/ UpdatePollWrite("w2") /\ Unobserved
    \/ get_all_polls("w2") /\ Unobserved
    \/ GetAllPollsList("w2") /\ Unobserved
    \/ add_vote("w1") /\ Unobserved
    \/ AddVoteOptionExists("w1") /\ Unobserved
    \/ AddVoteSubmit("w1") /\ ObserveCasts("w1")

SpecApiExpiry == InitApi /\ [][ApiExpiryNext]_vars

\* ---- template: administrators manage users and roles concurrently
RolesNext ==
    \E w \in Workers :
        \/ AddUserCheck(w) /\ Unobserved
        \/ AddUserInsert(w) /\ Unobserved
        \/ toggle_user_role(w) /\ Unobserved
        \/ RoleUserExists(w) /\ Unobserved
        \/ RoleUpdate(w) /\ Unobserved

SpecRoles == InitTemplate /\ [][RolesNext]_vars

\* ---- template: polls with different expiries are created, voted on and
\* deleted, one request at a time; the clock advances between requests
LaterExpiryTimes == 1..(MaxTime + 1)

TickBetweenRequests ==
    /\ \A w \in Workers : CanStart(w)
    /\ TickStep

FrozenNext ==
    \/ TickBetweenRequests
    \/ create_poll_expiring("w1", {PollTitle}, LaterExpiryTimes) /\ Unobserved
    \/ VoteOnPollRoute("w1") /\ Unobserved
    \/ VoteSelect("w1") /\ Unobserved
    \/ VoteWrite("w1") /\ Unobserved
    \/ delete_poll("w1") /\ Unobserved
    \/ DeletePollTx("w1") /\ Unobserved

SpecFrozen == InitTemplate /\ [][FrozenNext]_vars

\* ---- template: polls are created, voted on and deleted one request at a
\* time, the transaction of delete_poll taken statement by statement
DeleteStepsNext ==
    \/ create_poll("w1") /\ Unobserved
    \/ VoteOnPollRoute("w1") /\ Unobserved
    \/ VoteSelect("w1") /\ Unobserved
    \/ VoteWrite("w1") /\ Unobserved
    \/ delete_poll("w1") /\ Unobserved
    \/ DeletePollBegin("w1") /\ Unobserved
    \/ DeletePollStatement("w1") /\ Unobserved
    \/ DeletePollFails("w1") /\ Unobserved
    \/ DeletePollCommit("w1") /\ Unobserved

SpecDeleteSteps == InitTemplate /\ [][DeleteStepsNext]_vars

\* ---- template: polls with different expiries are created, listed and voted
\* on, one request at a time; the clock advances between requests
ListsNext ==
    \/ TickBetweenRequests
    \/ create_poll_expiring("w1", {PollTitle}, LaterExpiryTimes) /\ Unobserved
    \/ dashboard("w1") /\ Unobserved
    \/ DashboardExpired("w1") /\ Unobserved
    \/ VoteOnPollRoute("w1") /\ Unobserved
    \/ VoteSelect("w1") /\ Unobserved
    \/ VoteWrite("w1") /\ Unobserved

SpecLists == InitTemplate /\ [][ListsNext]_vars

\* ---- template: start-up over an empty users table, then user management,
\* one call at a time
InitEmptyUsers ==
    /\ variant = "template"
    /\ now = 0
    /\ users = {}
    /\ polls = {}
    /\ options = {}
    /\ votes = EmptyBag
    /\ next_poll_id = 1
    /\ next_option_id = 1
    /\ votes_unique = TRUE
    /\ req = [w \in Workers |-> Idle]
    /\ cast_parity = [k \in UserIds \X OptionIds |-> 0]
    /\ last_cast = [k \in PollIds \X UserIds |-> 0]

StartupNext ==
    \/ init_default_admin("w1") /\ Unobserved
    \/ InitAdminInsert("w1") /\ Unobserved
    \/ AddUserCheck("w1") /\ Unobserved
    \/ AddUserInsert("w1") /\ Unobserved
    \/ toggle_user_role("w1") /\ Unobserved
    \/ RoleUserExists("w1") /\ Unobserved
    \/ RoleUpdate("w1") /\ Unobserved
    \/ create_poll("w1") /\ Unobserved

SpecStartup == InitEmptyUsers /\ [][StartupNext]_vars

\* ================================================================ properties
VoteOps == {"vote_on_poll", "add_vote"}
CastSucceeded == {"ok", "recorded", "removed"}

\* task w begins a new request in this step
Starts(w) == CanStart(w) /\ req'[w] # req[w]

\* the vote rows stored for an option
CountOf(option_id) ==
    BagCardinality(BagWhere(votes, LAMBDA v : v.option_id = option_id))

\* the expiry of the poll lies strictly before the current time
ExpiresInPast(poll_id) ==
    \E p \in polls :
        /\ p.id = poll_id
        /\ IF variant = "api" THEN \E t \in p.expires_at : t < now
                              ELSE p.expires_at < now

\* the poll exists and the option is one of its options
ValidTarget(poll_id, option_id) ==
    /\ \E p \in polls : p.id = poll_id
    /\ \E o \in options : o.id = option_id /\ o.poll_id = poll_id

\* C1: in the JSON API every (poll, user) pair has at most one vote row at any
\* time, also while casts run concurrently, and that row holds the option of
\* the user's most recent successful cast on the poll.
C1_SingleChoice ==
    variant = "api" =>
        \A poll_id \in PollIds, user_id \in UserIds :
            LET rows == BagWhere(votes, LAMBDA v :
                            v.poll_id = poll_id /\ v.user_id = user_id)
            IN  /\ BagCardinality(rows) <= 1
                /\ \A v \in DOMAIN rows :
                       v.option_id = last_cast[<<poll_id, user_id>>]
                /\ last_cast[<<poll_id, user_id>>] # 0 => BagCardinality(rows) = 1

\* two successful casts of one user on one poll for different options: one row
C1_Replaced ==
    /\ \A w \in Workers :
          req[w].op = "add_vote" /\ req[w].pc = "done" /\ req[w].status = "ok"
    /\ req["w1"].poll_id = req["w2"].poll_id
    /\ req["w1"].user_id = req["w2"].user_id
    /\ req["w1"].option_id # req["w2"].option_id
    /\ \E v \in DOMAIN votes :
          v.poll_id = req["w1"].poll_id /\ v.user_id = req["w1"].user_id

\* C2: in the template application, with casts served one after the other, the
\* row (U, O) of a user U and an option O is stored exactly once when the
\* number of U's successful casts on O is odd and not at all when it is even.
C2_ToggleParity ==
    variant = "template" =>
        \A u \in users, o \in options :
            CopiesIn([user_id |-> u.id, option_id |-> o.id], votes)
                = cast_parity[<<u.id, o.id>>]

\* a second cast on the same option has removed the vote again
C2_ToggledOff ==
    LET r == req["w1"] IN
    /\ r.op = "vote_on_poll" /\ r.pc = "done" /\ r.status = "removed"
    /\ cast_parity[<<r.user_id, r.option_id>>] = 0
    /\ ~BagIn([user_id |-> r.user_id, option_id |-> r.option_id], votes)
    /\ \E o \in options : o.id = r.option_id

\* C3: concurrent toggle casts of one user on one option never leave more than
\* one row for the pair, and every cast that passed the poll checks on an
\* existing option ends as recorded or removed.
C3_ToggleAtomic ==
    /\ \A u \in UserIds, o \in OptionIds :
          CopiesIn([user_id |-> u, option_id |-> o], votes) <= 1
    /\ \A w \in Workers :
          (/\ req[w].op = "vote_on_poll" /\ req[w].pc = "done"
           /\ VoteForeignKeys(req[w].user_id, req[w].option_id)
           /\ req[w].status \notin {"poll_not_found", "poll_expired"})
              => req[w].status \in {"recorded", "removed"}

\* what a finished results request reports: (option, vote_count) pairs
Reported(r) ==
    IF r.op = "get_results"
    THEN {<<o.id, o.vote_count>> : o \in PollResult(r.options, r.vote_counts).options}
    ELSE {<<o.id, o.vote_count>> : o \in r.options}

\* the (option, number of vote rows) pairs stored for a poll
Stored(poll_id) ==
    {<<o.id, CountOf(o.id)>> : o \in {x \in options : x.poll_id = poll_id}}

\* C4: a cast on a poll whose expiry lies in the past ends at once as closed and
\* writes no vote, in both applications; a results request on such a poll
\* succeeds and reports for every option exactly the stored vote rows.
C4_ExpiredPollClosed ==
    [][\A w \in Workers :
        /\ (Starts(w) /\ req'[w].op \in VoteOps /\ ExpiresInPast(req'[w].poll_id))
              => /\ req'[w].pc = "done"
                 /\ req'[w].status \in {"poll_expired", "poll_inactive"}
                 /\ votes' = votes
        /\ (/\ req'[w] # req[w] /\ req'[w].pc = "done"
            /\ req'[w].op \in {"get_results", "poll_detail"}
            /\ req'[w].was_expired)
              => /\ req'[w].status = "ok"
                 /\ Reported(req'[w]) = Stored(req'[w].poll_id)]_vars

\* a cast on an expired, still active poll that holds votes was rejected
C4_RejectedWithHistory ==
    LET r == req["w1"] IN
    /\ variant = "api"
    /\ r.op = "add_vote" /\ r.pc = "done" /\ r.status = "poll_expired"
    /\ r.was_expired
    /\ \E p \in polls : p.id = r.poll_id /\ p.is_active
    /\ \E v \in DOMAIN votes : v.poll_id = r.poll_id

\* C5: a cast whose poll does not exist, whose option does not exist or whose
\* option belongs to another poll fails and leaves the votes as they were.
C5_BadTargetFails ==
    [][\A w \in Workers :
        (/\ req'[w] # req[w] /\ req'[w].pc = "done"
         /\ req'[w].op \in VoteOps
         /\ ~ValidTarget(req'[w].poll_id, req'[w].option_id))
            => /\ req'[w].status \notin CastSucceeded
               /\ votes' = votes]_vars

\* C6: delete_poll by a user who is not an admin on a poll created by someone
\* else ends as forbidden, and polls, options and votes are unchanged.
C6_ForbiddenDelete ==
    [][\A w \in Workers :
        (/\ Starts(w) /\ req'[w].op = "delete_poll"
         /\ ~req'[w].is_admin
         /\ \E p \in polls : p.id = req'[w].poll_id
                             /\ p.creator_id # req'[w].user_id)
            => /\ req'[w].pc = "done" /\ req'[w].status = "forbidden"
               /\ polls' = polls /\ options' = options /\ votes' = votes]_vars

\* a non-admin was refused the deletion of another user's poll with options
C6_Refused ==
    LET r == req["w1"] IN
    /\ r.op = "delete_poll" /\ r.pc = "done" /\ r.status = "forbidden"
    /\ ~r.is_admin
    /\ \E p \in polls : p.id = r.poll_id /\ p.creator_id # r.user_id
    /\ \E o \in options : o.poll_id = r.poll_id /\ CountOf(o.id) > 0

\* C7: the step that deletes a poll leaves no vote on any of its options, no
\* option of the poll and no poll row; a deleted poll id stays absent, and a
\* poll detail request for it ends as not found.
C7_DeleteRemoves ==
    [][variant = "template" =>
        \A w \in Workers :
        /\ (req[w].pc = "delete_tx" /\ req'[w].status = "deleted")
              => LET poll_id == req[w].poll_id
                     opts == {o.id : o \in {x \in options : x.poll_id = poll_id}}
                 IN  /\ \A v \in DOMAIN votes' : v.option_id \notin opts
                     /\ \A o \in options' : o.poll_id # poll_id
                     /\ \A p \in polls' : p.id # poll_id
        /\ \A poll_id \in PollIds :
              (poll_id < next_poll_id /\ get_poll_by_id(poll_id) = {})
                  => /\ \A p \in polls' : p.id # poll_id
                     /\ (/\ Starts(w) /\ req'[w].op = "poll_detail"
                         /\ req'[w].poll_id = poll_id)
                            => req'[w].status = "not_found"]_vars

\* a poll that held a vote was deleted together with its options and votes
C7_DeletedWithVotes ==
    LET r == req["w1"] IN
    /\ r.op = "delete_poll" /\ r.pc = "done" /\ r.status = "deleted"
    /\ r.poll_id < next_poll_id
    /\ \E u \in UserIds, o \in OptionIds :
          /\ cast_parity[<<u, o>>] = 1
          /\ \A x \in options : x.id # o
          /\ ~BagIn([user_id |-> u, option_id |-> o], votes)

\* C8: in every PollResult that get_results returns, the vote_count of the
\* returned options add up to total_votes, also when polls are created and
\* votes are cast while the results are computed.
C8_CountsAddUp ==
    \A w \in Workers :
        (req[w].op = "get_results" /\ req[w].pc = "done" /\ req[w].status = "ok")
            => LET res == PollResult(req[w].options, req[w].vote_counts)
                   ids == {o.id : o \in res.options}
               IN  SumOver(ids, [i \in ids |->
                        (CHOOSE o \in res.options : o.id = i).vote_count])
                       = res.total_votes

\* C9: get_results reports total_votes = 0 and percentage 0 for every option
\* of a poll without votes; otherwise each percentage is the fraction
\* vote_count / total_votes * 100, so 100 for an option holding all the votes
\* and 0 for an option holding none.
C9_Percentages ==
    \A w \in Workers :
        (req[w].op = "get_results" /\ req[w].pc = "done" /\ req[w].status = "ok")
            => LET res == PollResult(req[w].options, req[w].vote_counts)
                   stored == BagWhere(votes, LAMBDA v : v.poll_id = req[w].poll_id)
               IN  /\ res.total_votes = BagCardinality(stored)
                   /\ \A o \in res.options :
                        /\ o.percentage[2] > 0
                        /\ res.total_votes = 0 => o.percentage[1] = 0
                        /\ res.total_votes > 0 =>
                              o.percentage[1] * res.total_votes
                                  = o.vote_count * 100 * o.percentage[2]
                        /\ (res.total_votes > 0 /\ o.vote_count = res.total_votes)
                              => o.percentage[1] = 100 * o.percentage[2]
                        /\ o.vote_count = 0 => o.percentage[1] = 0

\* results of a poll with two votes on one option: that option at 100, another at 0
C9_AllAndNothing ==
    LET r == req["w1"]
        res == PollResult(r.options, r.vote_counts)
    IN  /\ r.op = "get_results" /\ r.pc = "done" /\ r.status = "ok"
        /\ res.total_votes = 2
        /\ \E a, b \in res.options :
              /\ a.vote_count = 2 /\ a.percentage = <<200, 2>>
              /\ b.vote_count = 0 /\ b.percentage[1] = 0

\* C10: toggle_user_role whose target is the acting user ends at once as a
\* failure, for either value of set_admin, and changes no user.
C10_OwnRoleRefused ==
    [][\A w \in Workers :
        (/\ Starts(w) /\ req'[w].op = "toggle_user_role"
         /\ req'[w].target_id = req'[w].user_id)
            => /\ req'[w].pc = "done"
               /\ req'[w].status \in {"own_role", "forbidden"}
               /\ users' = users]_vars

\* an admin tried to take away their own admin role and still holds it
C10_SelfDemotionRefused ==
    \E w \in Workers :
        /\ req[w].op = "toggle_user_role" /\ req[w].pc = "done"
        /\ req[w].status = "own_role"
        /\ req[w].target_id = req[w].user_id /\ ~req[w].set_admin
        /\ \E u \in users : u.id = req[w].user_id /\ u.is_admin

CreateOps == {"create_poll", "create_new_poll"}

\* C11: a poll is persisted with all its requested options or not at all: no
\* results request has read the option list of a poll while the request that
\* creates the poll still has options to insert.
C11_CreateAllOrNothing ==
    \A c, w \in Workers :
        (/\ req[c].op = "create_new_poll" /\ req[c].pc = "add_poll_option"
         /\ req[w].op = "get_results" /\ req[w].poll_id = req[c].poll_id)
            => req[w].pc \notin {"results_counts", "results_user_vote", "done"}

\* C12: creating a poll whose title trims to empty, or in the JSON API with
\* fewer than two options, ends as a validation error and persists no poll and
\* no option; every persisted poll has a title that does not trim to empty.
C12_CreateValidated ==
    [][/\ \A w \in Workers :
            (/\ Starts(w) /\ req'[w].op \in CreateOps
             /\ \/ trim(req'[w].title) = <<>>
                \/ variant = "api" /\ req'[w].requested < MinOptions)
                => /\ req'[w].pc = "done" /\ req'[w].status = "bad_request"
                   /\ polls' = polls /\ options' = options
       /\ \A p \in polls' : trim(p.title) # <<>>]_vars

\* C13: update_poll by a user who is neither the poll's creator nor an admin
\* ends as forbidden, and on a poll id that does not exist as not found; in
\* both cases no poll changes, and every step of update_poll that changes a
\* poll is made for the poll's creator or for an admin.
C13_UpdatePermission ==
    [][\A w \in Workers :
        /\ (Starts(w) /\ req'[w].op = "update_poll")
              => /\ polls' = polls
                 /\ (\A p \in polls : p.id # req'[w].poll_id)
                        => req'[w].pc = "done" /\ req'[w].status = "not_found"
                 /\ (\E p \in polls : /\ p.id = req'[w].poll_id
                                      /\ p.created_by # req'[w].user_id
                                      /\ ~req'[w].is_admin)
                        => req'[w].pc = "done" /\ req'[w].status = "forbidden"
        /\ (req[w].op = "update_poll" /\ ~CanStart(w) /\ polls' # polls)
              => \A p \in polls \ polls' :
                    /\ p.id = req[w].poll_id
                    /\ p.created_by = req[w].user_id \/ req[w].is_admin]_vars

\* a registered user was refused the update of the admin's poll
C13_UpdateRefused ==
    LET r == req["w1"] IN
    /\ r.op = "update_poll" /\ r.pc = "done" /\ r.status = "forbidden"
    /\ ~r.is_admin
    /\ \E p \in polls : /\ p.id = r.poll_id /\ p.created_by # r.user_id
                        /\ p.is_active # r.is_active

\* the poll accepts votes: it is active and its expiry, if any, is not passed
AcceptsVotes(p) == p.is_active /\ \A t \in p.expires_at : ~(t < now)

\* C14: a poll whose expiry has passed never accepts votes again, whatever
\* operation follows.
C14_ExpiryOneWay ==
    [][\A p \in polls :
        (variant = "api" /\ \E t \in p.expires_at : t < now)
            => \A q \in polls' : q.id = p.id => ~AcceptsVotes(q)']_vars

UserCreateOps == {"register", "add_user"}
UsernameConflict == {"username_taken", "username_exists"}

\* C16: usernames are unique, and a creation of a user whose username is
\* taken when the request ends fails with the username conflict outcome and
\* creates no user, also when two creations of the same username overlap.
C16_UsernameConflict ==
    [][/\ \A u1, u2 \in users' : u1.username = u2.username => u1 = u2
       /\ \A w \in Workers :
            (/\ req'[w].op \in UserCreateOps
             /\ req'[w].pc = "done" /\ req'[w] # req[w]
             /\ UsernameTaken(req'[w].username))
                => /\ req'[w].status \in UsernameConflict
                   /\ users' = users]_vars

Admins(us) == {u \in us : u.is_admin}

\* C17: a call of init_default_admin made while an admin exists ends without
\* an INSERT and changes no user; a call made while no admin exists leaves
\* exactly one admin, the default one.
C17_InitAdminIdempotent ==
    [][\A w \in Workers :
        /\ (Starts(w) /\ req'[w].op = "init_default_admin")
              => /\ users' = users
                 /\ Admins(users) # {}
                       => req'[w].pc = "done" /\ req'[w].status = "skipped"
        /\ (req[w].op = "init_default_admin" /\ ~CanStart(w))
              => /\ Admins(users) = {}
                 /\ req'[w].status = "created"
                 /\ Cardinality(Admins(users')) = 1
                 /\ \A u \in users' \ users : u.username = "admin"]_vars

\* the second of two consecutive calls over a table that was empty
C17_SecondCallSkipped ==
    /\ req["w1"].op = "init_default_admin" /\ req["w1"].pc = "done"
    /\ req["w1"].status = "skipped"
    /\ users = {[id |-> 1, username |-> "admin", is_admin |-> TRUE]}

\* C18: a user who holds a vote in a poll holds one after every step, so no
\* statement of a reader falls between the removal of the old row and the
\* arrival of the new one: the counts a reader fetches add up to the number of
\* users who have cast on the poll, and a cast that fails leaves the rows as
\* they were.
C18_ReplacementAtomic ==
    [][/\ \A v \in DOMAIN votes :
            \E x \in DOMAIN votes' :
                x.poll_id = v.poll_id /\ x.user_id = v.user_id
       /\ \A w \in Workers :
            /\ (req[w].pc = "results_counts" /\ req'[w].pc = "results_user_vote")
                  => SumOver(DOMAIN req'[w].vote_counts, req'[w].vote_counts)
                        = Cardinality({u \in UserIds :
                                          last_cast[<<req[w].poll_id, u>>] # 0})
            /\ (req[w].pc = "vote" /\ req'[w].status = "error")
                  => votes' = votes]_vars

\* a cast for another option failed and the user's earlier vote is still held
C18_FailedCastKeptVote ==
    \E w \in Workers :
        /\ req[w].op = "add_vote" /\ req[w].pc = "done" /\ req[w].status = "error"
        /\ \E v \in DOMAIN votes :
              /\ v.poll_id = req[w].poll_id /\ v.user_id = req[w].user_id
              /\ v.option_id # req[w].option_id

\* C19: once the expiry of a poll has passed, the vote rows on the poll's
\* options stay as they are for as long as the options exist, whichever poll
\* id a vote request is addressed to.
C19_ExpiredVotesFrozen ==
    [][\A o \in options \cap options' :
        (\E p \in polls : p.id = o.poll_id /\ p.expires_at < now)
            => \A v \in DOMAIN votes \cup DOMAIN votes' :
                  v.option_id = o.id
                      => /\ v \in DOMAIN votes /\ v \in DOMAIN votes'
                         /\ CopiesIn(v, votes) = CopiesIn(v, votes')]_vars

\* C20: a cast writes its vote row only while its poll exists and is active,
\* also when the poll is updated, swept or deleted while the cast is running.
C20_CheckAndWriteAtomic ==
    [][\A w \in Workers :
        (req[w].op \in VoteOps /\ ~CanStart(w) /\ votes' # votes)
            => \E p \in polls :
                  /\ p.id = req[w].poll_id
                  /\ variant = "api" => p.is_active]_vars
\* C21: a toggle cast of user U on option O leaves every vote row other than
\* (U, O) as it was, so U can hold votes on several options of one poll.
C21_ToggleFrame ==
    [][\A w \in Workers :
        (req[w].pc = "vote_write" /\ req'[w].pc = "done")
            => \A v \in DOMAIN votes \cup DOMAIN votes' :
                  (v.user_id # req[w].user_id \/ v.option_id # req[w].option_id)
                      => /\ v \in DOMAIN votes /\ v \in DOMAIN votes'
                         /\ CopiesIn(v, votes) = CopiesIn(v, votes')]_vars

\* a user removed one of their votes and still holds another on the same poll
C21_OtherVoteKept ==
    LET r == req["w1"] IN
    /\ r.op = "vote_on_poll" /\ r.pc = "done" /\ r.status = "removed"
    /\ \E o1, o2 \in options :
          /\ o1.id = r.option_id /\ o2.id # o1.id /\ o2.poll_id = o1.poll_id
          /\ BagIn([user_id |-> r.user_id, option_id |-> o2.id], votes)
          /\ ~BagIn([user_id |-> r.user_id, option_id |-> o1.id], votes)
\* C22: the sweep deactivates every poll whose expiry has passed, and the list
\* a fetch returns after its sweep holds no poll whose expiry has passed.
C22_FetchSweepsFirst ==
    [][\A w \in Workers :
        /\ (Starts(w) /\ req'[w].op = "get_all_polls")
              => \A p \in polls' :
                    (\E t \in p.expires_at : t < now) => ~p.is_active
        /\ (req[w].pc = "list_polls" /\ req'[w].pc = "done")
              => \A p \in polls :
                    p.id \in req'[w].listed => ~\E t \in p.expires_at : t < now]_vars
\* C23: every stored option of the template application has is_date exactly
\* when it has a date_time.
C23_DateOptionsWellFormed ==
    variant = "template" =>
        \A o \in options : o.is_date <=> o.date_time # None
\* no option without its poll and no vote without its option
RowsConsistent(vs, os, ps) ==
    /\ \A o \in os : \E p \in ps : p.id = o.poll_id
    /\ \A v \in DOMAIN vs : \E o \in os : o.id = v.option_id

\* C24: after every statement of delete_poll's transaction the rows the
\* transaction sees are consistent, the votes of the poll go before its
\* options and the options before the poll, and a transaction that fails
\* removes nothing.
C24_DeleteOrdered ==
    [][\A w \in Workers :
        /\ req'[w].pc = "delete_statement"
              => LET tx == req'[w].tx
                 IN  /\ RowsConsistent(tx.votes, tx.options, tx.polls)
                     /\ tx.step <= 3 => tx.polls = polls
                     /\ tx.step <= 2 => tx.options = options
        /\ (req[w].pc = "delete_statement" /\ req'[w].status = "error")
              => polls' = polls /\ options' = options /\ votes' = votes
        /\ RowsConsistent(votes', options', polls')]_vars

\* inside the transaction the votes of the poll are gone, its options are not
C24_VotesDeletedFirst ==
    LET r == req["w1"] IN
    /\ r.pc = "delete_statement" /\ r.tx.step = 2
    /\ r.tx.votes # votes
    /\ \E o \in r.tx.options : o.poll_id = r.poll_id
\* C25: a read whose poll and options were fetched and whose lookup of the
\* viewer's own votes fails still succeeds, in both applications.
C25_LookupFailureTolerated ==
    [][\A w \in Workers :
        (req'[w].lookup_failed /\ ~req[w].lookup_failed)
            => req'[w].pc = "done" /\ req'[w].status = "ok"]_vars
\* C26: at least one user is an admin in every state, whatever role changes
\* admins request of one another.
C26_AdminRemains ==
    \E u \in users : u.is_admin
\* C27: delete_poll ends as deleted only when the poll existed and this call
\* removed it.
C27_DeleteOnlyExisting ==
    [][\A w \in Workers :
        (/\ req[w].op = "delete_poll" /\ req'[w].pc = "done"
         /\ req'[w] # req[w] /\ req'[w].status = "deleted")
            => \E p \in polls : p.id = req'[w].poll_id /\ p \notin polls']_vars
\* C28: no step of a cast of user U changes a poll, an option or a user, or
\* the vote rows of any other user.
C28_CastFrame ==
    [][\A w \in Workers :
        (req'[w] # req[w] /\ req'[w].op \in VoteOps)
            => /\ polls' = polls /\ options' = options /\ users' = users
               /\ \A v \in DOMAIN votes \cup DOMAIN votes' :
                     v.user_id # req'[w].user_id
                         => /\ v \in DOMAIN votes /\ v \in DOMAIN votes'
                            /\ CopiesIn(v, votes) = CopiesIn(v, votes')]_vars

\* a user took their vote off an option on which another user still has one
C28_OthersVoteKept ==
    LET r == req["w1"] IN
    /\ r.op = "vote_on_poll" /\ r.pc = "done" /\ r.status = "removed"
    /\ \E v \in DOMAIN votes :
          v.option_id = r.option_id /\ v.user_id # r.user_id
C30_VotePollMatchesOption ==
    variant = "api" =>
        /\ \A v \in DOMAIN votes :
              \E o \in options : o.id = v.option_id /\ o.poll_id = v.poll_id
        /\ \A poll_id \in PollIds :
              DOMAIN get_vote_counts(poll_id)
                  \subseteq {o.id : o \in {x \in options : x.poll_id = poll_id}}

\* a cast naming an option of another poll was refused while votes are stored
C30_ForeignOptionRefused ==
    LET r == req["w1"] IN
    /\ r.op = "add_vote" /\ r.pc = "done" /\ r.status = "invalid_option"
    /\ \E o \in options : o.id = r.option_id /\ o.poll_id # r.poll_id
    /\ votes # EmptyBag
====
